---- MODULE Spec2Model ----
(***************************************************************************)
(* The lazily materialised quadtree with lazy propagation of               *)
(* "1.8.1 Strongly Connected Components (Kosaraju's).cpp", lines 139-303.  *)
(*                                                                         *)
(* The heap is a sequence of node records; a node_t* is an index into it   *)
(* (0 is NULL) and a node_t*& is a slot <<p, i>>: child i of node p, or    *)
(* the member root when p = 0.  Every private member function is an        *)
(* operator on the record of the object's members and the heap, and        *)
(* returns that record after the call.  In a limited run operator new      *)
(* throws when the heap already holds cap nodes; a throw unwinds the whole *)
(* public call.                                                            *)
(*                                                                         *)
(* The source fixes MAXR = MAXC = 10^9 and the "set"/"min" policy; the     *)
(* model runs the same code on a small coordinate range and under both     *)
(* policies the header comment documents.                                  *)
(*                                                                         *)
(* The areas the tree computes in int are followed on the range of the     *)
(* source itself (SpecWalk), and the SCC program of lines 53-93 of the     *)
(* same file is modelled beside the tree (SpecSCC).                        *)
(***************************************************************************)
EXTENDS Integers, Sequences, FiniteSets, TLC

VARIABLES
  policy,   \* which definitions of the four join_* functions are compiled in
  init,     \* member init
  tree,     \* the heap and the members root, tgt_*, res, delta, found
  grid,     \* reference: the conceptual value of every cell
  touched,  \* reference: the cells covered by some update so far
  last,     \* the public call that returned (or threw) last
  ret,      \* the value the last query()/at() returned
  freed,    \* the nodes deleted by the destructor, in order
  ops,      \* number of public calls made
  kos,      \* the globals of the SCC program (lines 53-57) and where main is
  walk      \* one call on the range of the source: where its recursion is
            \* and the area it passed last

vars == <<policy, init, tree, grid, touched, last, ret, freed, ops, kos, walk>>

----------------------------------------------------------------------------
(* Bounds of the model *)

\* The coordinate range [0, MAXR] x [0, MAXC] (10^9 in the source).
MAXR == 0
MAXC == 1
\* Public calls made on one tree.
MaxOps == 2
\* Depth at which the model gives up on a recursion.
MaxDepth == 4
\* Largest heap size at which the allocator is made to fail.
MaxCap == 5

\* Most vertices of an input graph (const int MAXN = 100 in the source).
MAXN == 3
\* Most edges of an input graph.
MaxEdges == 3

\* The null pointer.
NULL == 0

Rows == 0..MAXR
Cols == 0..MAXC
Cells == Rows \X Cols
Deltas == {1, 2}
Inits == {0, 1}
Policies == {"assign", "accumulate"}

\* The valid rectangles <<r1, c1, r2, c2>>: r1 <= r2, c1 <= c2, within bounds.
Rects == {q \in Rows \X Cols \X Rows \X Cols : q[1] <= q[3] /\ q[2] <= q[4]}

CellsOf(r1, c1, r2, c2) == {x \in Cells : r1 <= x[1] /\ x[1] <= r2 /\ c1 <= x[2] /\ x[2] <= c2}

----------------------------------------------------------------------------
(* The policy: join_values, join_region, join_value_with_delta, join_deltas *)

Min(a, b) == IF a <= b THEN a ELSE b
Max(a, b) == IF a >= b THEN a ELSE b

join_values(a, b) == IF policy = "assign" THEN Min(a, b) ELSE a + b

join_region(v, area) == IF policy = "assign" THEN v ELSE v * area

jvwd_acc_on_assign(v, d, area) == v + d * area

join_value_with_delta(v, d, area) == IF policy = "assign" THEN d ELSE v + d * area

join_deltas(d1, d2) == IF policy = "assign" THEN d2 ELSE d1 + d2

----------------------------------------------------------------------------
(* Nodes and the heap *)

\* node_t::node_t(v).  The constructor leaves delta unset; it is written by
\* update_delta before pending is ever true, so the 0 here is never read.
\* applied is a ghost: the node's value already includes its pending delta.
node_t(v) ==
  [value |-> v, delta |-> 0, pending |-> FALSE, applied |-> FALSE,
   child |-> <<NULL, NULL, NULL, NULL>>]

\* What a node_t*& refers to.
Deref(m, slot) ==
  IF slot[1] = 0 THEN m.root ELSE m.heap[slot[1]].child[slot[2]]

StoreSlot(m, slot, n) ==
  IF slot[1] = 0 THEN [m EXCEPT !.root = n]
  ELSE [m EXCEPT !.heap[slot[1]].child[slot[2]] = n]

\* n = new node_t(v): throws std::bad_alloc when no memory is left, and
\* then n keeps its old value.
New(m, slot, v) ==
  IF m.limited /\ Len(m.heap) >= m.cap
  THEN [m EXCEPT !.thrown = TRUE]
  ELSE StoreSlot([m EXCEPT !.heap = Append(@, node_t(v))], slot, Len(m.heap) + 1)

\* The call is being unwound (an exception), or the model's depth cap was hit.
Stopped(m) == m.thrown \/ m.overrun

MidHigh(lo, hi) == hi

\* (lo + hi)/2 of lines 191, 219 and 250.
Mid(lo, hi) == (lo + hi) \div 2

Disjoint(m, r1, c1, r2, c2) ==
  m.tgt[3] < r1 \/ m.tgt[1] > r2 \/ m.tgt[4] < c1 \/ m.tgt[2] > c2

Contained(m, r1, c1, r2, c2) ==
  m.tgt[1] <= r1 /\ r2 <= m.tgt[3] /\ m.tgt[2] <= c1 /\ c2 <= m.tgt[4]

\* The four quadrants in the order of child[0..3].
Quadrants(r1, c1, r2, c2) ==
  LET rmid == Mid(r1, r2)
      cmid == Mid(c1, c2)
  IN << <<r1, c1, rmid, cmid>>, <<rmid + 1, c1, r2, cmid>>,
        <<r1, cmid + 1, rmid, c2>>, <<rmid + 1, cmid + 1, r2, c2>> >>

----------------------------------------------------------------------------
(* update_delta, both overloads *)

\* Lines 185-186: n->delta = n->pending ? join_deltas(n->delta, d) : d;
\* n->pending = true.
Defer(m, n, d) ==
  [m EXCEPT !.heap[n].delta = IF m.heap[n].pending THEN join_deltas(@, d) ELSE d,
            !.heap[n].pending = TRUE,
            !.heap[n].applied = FALSE]

\* Lines 185-186, reached only if line 183 did not throw.
DeferAt(m, slot, d) == IF Stopped(m) THEN m ELSE Defer(m, Deref(m, slot), d)

\* update_delta(node_t *&n, const T &d, int area)
update_delta_lazy(m, slot, d, area) ==
  DeferAt(IF Deref(m, slot) = NULL THEN New(m, slot, join_region(init, area)) ELSE m,
          slot, d)

\* rlen1*clen1, rlen2*clen1, rlen1*clen2, rlen2*clen2 of lines 191-200.
ChildAreas(r1, c1, r2, c2) ==
  LET rlen1 == Mid(r1, r2) - r1 + 1
      rlen2 == (r2 - r1 + 1) - rlen1
      clen1 == Mid(c1, c2) - c1 + 1
      clen2 == (c2 - c1 + 1) - clen1
  IN <<rlen1 * clen1, rlen2 * clen1, rlen1 * clen2, rlen2 * clen2>>

RECURSIVE PushDown(_, _, _, _)
\* Lines 197-200: update_delta(n->child[i], delta, area_i) for i = 0..3, in
\* order, given up at the first throw.
PushDown(m, n, areas, i) ==
  IF i > 4 \/ Stopped(m) THEN m
  ELSE PushDown(update_delta_lazy(m, <<n, i>>, m.delta, areas[i]), n, areas, i + 1)

\* Lines 193-201.  The delta applied and pushed down is the member delta.
Apply(m, n, r1, c1, r2, c2) ==
  IF (r2 - r1 + 1) * (c2 - c1 + 1) > 1
  THEN PushDown([m EXCEPT !.heap[n].value =
                             join_value_with_delta(@, m.delta, (r2 - r1 + 1) * (c2 - c1 + 1)),
                          !.heap[n].applied = TRUE],
                n, ChildAreas(r1, c1, r2, c2), 1)
  ELSE [m EXCEPT !.heap[n].value =
                   join_value_with_delta(@, m.delta, (r2 - r1 + 1) * (c2 - c1 + 1)),
                 !.heap[n].applied = TRUE]

\* Lines 190-202: if (n->pending) { ... }
resolve(m, n, r1, c1, r2, c2) ==
  IF m.heap[n].pending THEN Apply(m, n, r1, c1, r2, c2) ELSE m

\* Line 203: n->pending = false, reached only if nothing threw.
ClearPending(m, n) ==
  IF Stopped(m) THEN m
  ELSE [m EXCEPT !.heap[n].pending = FALSE, !.heap[n].applied = FALSE]

\* update_delta without its last statement, n->pending = false.
update_delta_keep_pending(m, n, r1, c1, r2, c2) == resolve(m, n, r1, c1, r2, c2)

\* update_delta(node_t *&n, int r1, int c1, int r2, int c2)
update_delta(m, n, r1, c1, r2, c2) == ClearPending(resolve(m, n, r1, c1, r2, c2), n)

----------------------------------------------------------------------------
(* update and query, the recursive private overloads *)

\* The recursive calls a visit of <<r1, c1, r2, c2>> makes (ghost, for the
\* termination argument).
Edges(r1, c1, r2, c2) ==
  {<< <<r1, c1, r2, c2>>, Quadrants(r1, c1, r2, c2)[i] >> : i \in 1..4}

Descend(m, r1, c1, r2, c2) == [m EXCEPT !.calls = @ \cup Edges(r1, c1, r2, c2)]

\* Lines 224-229: n->value becomes the join of the four children's values.
Recompute(m, n) ==
  IF Stopped(m) THEN m
  ELSE [m EXCEPT !.heap[n].value =
          join_values(join_values(join_values(m.heap[m.heap[n].child[1]].value,
                                              m.heap[m.heap[n].child[2]].value),
                                  m.heap[m.heap[n].child[3]].value),
                      m.heap[m.heap[n].child[4]].value)]

RECURSIVE update(_, _, _, _, _, _, _)
RECURSIVE UpdateChildren(_, _, _, _, _)
RECURSIVE UpdateVisit(_, _, _, _, _, _, _)

\* Lines 220-223: update(n->child[i], quadrant i) for i = 0..3, in order.
UpdateChildren(m, n, quads, i, fuel) ==
  IF i > 4 \/ Stopped(m) THEN m
  ELSE UpdateChildren(update(m, <<n, i>>, quads[i][1], quads[i][2], quads[i][3], quads[i][4], fuel),
                      n, quads, i + 1, fuel)

\* Lines 211-229, with n's pending delta resolved.
UpdateVisit(m, n, r1, c1, r2, c2, fuel) ==
  IF Stopped(m) THEN m
  ELSE IF Disjoint(m, r1, c1, r2, c2) THEN m
  ELSE IF Contained(m, r1, c1, r2, c2)
       THEN update_delta([m EXCEPT !.heap[n].pending = TRUE], n, r1, c1, r2, c2)
  ELSE Recompute(UpdateChildren(Descend(m, r1, c1, r2, c2), n,
                                Quadrants(r1, c1, r2, c2), 1, fuel - 1), n)

\* Lines 210-229, with n materialised.
UpdateNode(m, slot, r1, c1, r2, c2, fuel) ==
  IF Stopped(m) THEN m
  ELSE UpdateVisit(update_delta(m, Deref(m, slot), r1, c1, r2, c2), Deref(m, slot),
                   r1, c1, r2, c2, fuel)

\* update(node_t *&n, int r1, int c1, int r2, int c2); fuel caps the depth.
update(m, slot, r1, c1, r2, c2, fuel) ==
  IF fuel = 0 THEN [m EXCEPT !.overrun = TRUE]
  ELSE UpdateNode(IF Deref(m, slot) = NULL
                  THEN New(m, slot, join_region(init, (r2 - r1 + 1) * (c2 - r1 + 1)))
                  ELSE m,
                  slot, r1, c1, r2, c2, fuel)

\* res = found ? join_values(res, v) : v; found = true;
Collect(m, v) ==
  [m EXCEPT !.res = IF m.found THEN join_values(m.res, v) ELSE v, !.found = TRUE]

RECURSIVE query(_, _, _, _, _, _, _)
RECURSIVE QueryChildren(_, _, _, _, _)
RECURSIVE QueryVisit(_, _, _, _, _, _, _)

\* Lines 251-254: query(n->child[i], quadrant i) for i = 0..3, in order.
QueryChildren(m, n, quads, i, fuel) ==
  IF i > 4 \/ Stopped(m) THEN m
  ELSE QueryChildren(query(m, m.heap[n].child[i],
                           quads[i][1], quads[i][2], quads[i][3], quads[i][4], fuel),
                     n, quads, i + 1, fuel)

\* Lines 245-254, with n's pending delta resolved.
QueryVisit(m, n, r1, c1, r2, c2, fuel) ==
  IF Stopped(m) THEN m
  ELSE IF Contained(m, r1, c1, r2, c2) THEN Collect(m, m.heap[n].value)
  ELSE QueryChildren(Descend(m, r1, c1, r2, c2), n, Quadrants(r1, c1, r2, c2), 1, fuel - 1)

\* query(node_t *n, int r1, int c1, int r2, int c2); fuel caps the depth.
query(m, n, r1, c1, r2, c2, fuel) ==
  IF fuel = 0 THEN [m EXCEPT !.overrun = TRUE]
  ELSE IF Disjoint(m, r1, c1, r2, c2) THEN m
  ELSE IF n = NULL
       THEN Collect(m, join_region(init,
                                   (Min(r2, m.tgt[3]) - Max(r1, m.tgt[1]) + 1)
                                   * (Min(c2, m.tgt[4]) - Max(c1, m.tgt[2]) + 1)))
  ELSE QueryVisit(update_delta(m, n, r1, c1, r2, c2), n, r1, c1, r2, c2, fuel)

----------------------------------------------------------------------------
(* The public member functions *)

\* quadtree(const T &v): root = NULL; init = v.  The helper members are
\* unset by the constructor; every public call writes them before reading.
NewTree(lim, c) ==
  [limited |-> lim, cap |-> c, heap |-> <<>>, root |-> NULL, tgt |-> <<0, 0, 0, 0>>, res |-> 0, delta |-> 0,
   found |-> FALSE, thrown |-> FALSE, overrun |-> FALSE, calls |-> {}]

Enter(m, r1, c1, r2, c2) ==
  [m EXCEPT !.tgt = <<r1, c1, r2, c2>>, !.thrown = FALSE, !.overrun = FALSE, !.calls = {}]

\* void update(int r1, int c1, int r2, int c2, const T &d)
PublicUpdate(m, r1, c1, r2, c2, d) ==
  update([Enter(m, r1, c1, r2, c2) EXCEPT !.delta = d], <<0, 0>>, 0, 0, MAXR, MAXC, MaxDepth)

\* T query(int r1, int c1, int r2, int c2): the object after the call.
PublicQuery(m, r1, c1, r2, c2) ==
  query([Enter(m, r1, c1, r2, c2) EXCEPT !.found = FALSE], m.root, 0, 0, MAXR, MAXC, MaxDepth)

\* The value that call returns.
Returned(m, r1, c1, r2, c2) ==
  IF m.found THEN m.res ELSE join_region(init, (r2 - r1 + 1) * (c2 - c1 + 1))

QueryResult(m, r1, c1, r2, c2) == Returned(PublicQuery(m, r1, c1, r2, c2), r1, c1, r2, c2)

\* T at(int r, int c): the object after the call, and the value returned.
PublicAt(m, r, c) == PublicQuery(m, r, c, r, c)

AtResult(m, r, c) == QueryResult(m, r, c, r, c)

RECURSIVE clean_up_three(_, _, _)
\* clean_up with the loop bound i < 3.
clean_up_three(heap, n, fuel) ==
  IF n = NULL \/ fuel = 0 THEN <<>>
  ELSE clean_up_three(heap, heap[n].child[1], fuel - 1)
       \o clean_up_three(heap, heap[n].child[2], fuel - 1)
       \o clean_up_three(heap, heap[n].child[3], fuel - 1) \o <<n>>

RECURSIVE clean_up(_, _, _)
\* clean_up(node_t *n): the nodes deleted, in order.
clean_up(heap, n, fuel) ==
  IF n = NULL \/ fuel = 0 THEN <<>>
  ELSE clean_up(heap, heap[n].child[1], fuel - 1) \o clean_up(heap, heap[n].child[2], fuel - 1)
       \o clean_up(heap, heap[n].child[3], fuel - 1) \o clean_up(heap, heap[n].child[4], fuel - 1)
       \o <<n>>

----------------------------------------------------------------------------
(* The reference grid *)

RECURSIVE FoldCells(_, _)
\* join_values over the values f gives to the cells of the non-empty set S.
FoldCells(f, S) ==
  LET x == CHOOSE y \in S : TRUE
  IN IF S = {x} THEN f[x] ELSE join_values(f[x], FoldCells(f, S \ {x}))

GridAfter(g, r1, c1, r2, c2, d) ==
  [x \in Cells |-> IF x \in CellsOf(r1, c1, r2, c2)
                   THEN join_value_with_delta(g[x], d, 1) ELSE g[x]]

----------------------------------------------------------------------------
(* Strongly connected components, lines 53-93 *)

Vertices == 0..(MAXN - 1)

\* The globals of lines 53-57 before main runs, with the input main will
\* read: nodes, and the edges a b in the order given.
Globals(n, es) ==
  [nodes |-> n, input |-> es,
   vis |-> [v \in Vertices |-> FALSE],
   adj |-> [v \in Vertices |-> <<>>],
   rev |-> [v \in Vertices |-> <<>>],
   order |-> <<>>, SCC |-> <<>>, pc |-> "read"]

\* The inputs of k edges between vertices 0..n-1.
EdgeLists(n, k) == [1..k -> (0..(n - 1)) \X (0..(n - 1))]

RECURSIVE ReadEdges(_, _, _)
\* Lines 69-72: adj[a].push_back(b) for every edge read.
ReadEdges(graph, es, i) ==
  IF i > Len(es) THEN graph
  ELSE ReadEdges([graph EXCEPT ![es[i][1]] = Append(@, es[i][2])], es, i + 1)

RECURSIVE DFS(_, _, _)
RECURSIVE DFSLoop(_, _, _, _)

\* Lines 61-63: the loop over graph[i].
DFSLoop(graph, st, i, j) ==
  IF j > Len(graph[i]) THEN st
  ELSE DFSLoop(graph,
               IF ~st.vis[graph[i][j]] THEN DFS(graph, st, graph[i][j]) ELSE st,
               i, j + 1)

\* void DFS(vector<int> graph[], vector<int> &res, int i); st holds vis and res.
DFS(graph, st, i) ==
  [DFSLoop(graph, [st EXCEPT !.vis[i] = TRUE], i, 1) EXCEPT !.res = Append(@, i)]

RECURSIVE FirstLoop(_, _, _, _)
\* Lines 73-74: for i < nodes, if (!vis[i]) DFS(adj, order, i).
FirstLoop(graph, st, i, n) ==
  IF i >= n THEN st
  ELSE FirstLoop(graph, IF ~st.vis[i] THEN DFS(graph, st, i) ELSE st, i + 1, n)

RECURSIVE TransposeLoop(_, _, _, _, _)
\* Lines 75-77: rev[adj[i][j]].push_back(i).
TransposeLoop(graph, r, i, j, n) ==
  IF i >= n THEN r
  ELSE IF j > Len(graph[i]) THEN TransposeLoop(graph, r, i + 1, 1, n)
  ELSE TransposeLoop(graph, [r EXCEPT ![graph[i][j]] = Append(@, i)], i, j + 1, n)

NotReversed(s) == s

\* std::reverse(order.begin(), order.end())
Reversed(s) == [i \in 1..Len(s) |-> s[Len(s) + 1 - i]]

\* Lines 82-84: a new component, filled by DFS on rev, pushed to SCC.
Component(k, v) ==
  [k EXCEPT !.vis = DFS(k.rev, [vis |-> k.vis, res |-> <<>>], v).vis,
            !.SCC = Append(@, DFS(k.rev, [vis |-> k.vis, res |-> <<>>], v).res)]

RECURSIVE SecondLoop(_, _)
\* Lines 80-85: for i < order.size(), skipping visited vertices.
SecondLoop(k, i) ==
  IF i > Len(k.order) THEN k
  ELSE SecondLoop(IF k.vis[k.order[i]] THEN k ELSE Component(k, k.order[i]), i + 1)

\* The SCC program leaves the region tree alone.
StepTo(k) ==
  /\ kos' = k
  /\ UNCHANGED <<policy, init, tree, grid, touched, last, ret, freed, ops, walk>>

\* Lines 68-72
ReadGraph ==
  /\ kos.pc = "read"
  /\ StepTo([kos EXCEPT !.adj = ReadEdges(@, kos.input, 1), !.pc = "first"])

\* Lines 73-74
FirstPass ==
  /\ kos.pc = "first"
  /\ StepTo([kos EXCEPT
       !.vis = FirstLoop(kos.adj, [vis |-> kos.vis, res |-> kos.order], 0, kos.nodes).vis,
       !.order = FirstLoop(kos.adj, [vis |-> kos.vis, res |-> kos.order], 0, kos.nodes).res,
       !.pc = "transpose"])

\* Lines 75-77
Transpose ==
  /\ kos.pc = "transpose"
  /\ StepTo([kos EXCEPT !.rev = TransposeLoop(kos.adj, @, 0, 1, kos.nodes), !.pc = "reset"])

\* Line 78
ResetVis ==
  /\ kos.pc = "reset"
  /\ StepTo([kos EXCEPT !.vis = [v \in Vertices |-> IF v < kos.nodes THEN FALSE ELSE @[v]],
                        !.pc = "reverse"])

\* Line 79
ReverseOrder ==
  /\ kos.pc = "reverse"
  /\ StepTo([kos EXCEPT !.order = Reversed(@), !.pc = "second"])

\* Lines 80-85; the output loop of lines 86-91 prints SCC as it is then.
SecondPass ==
  /\ kos.pc = "second"
  /\ StepTo(SecondLoop([kos EXCEPT !.pc = "done"], 1))

NextSCC == ReadGraph \/ FirstPass \/ Transpose \/ ResetVis \/ ReverseOrder \/ SecondPass

----------------------------------------------------------------------------
(* The areas computed on the range of the source, in int *)

\* static const int MAXR = 1000000000, MAXC = 1000000000
MAXR_REF == 1000000000
MAXC_REF == 1000000000

\* The range of int.
INT_MAX == (2^30 - 1) + 2^30
INT_MIN == -INT_MAX - 1

Abs(a) == IF a < 0 THEN -a ELSE a

\* a*b for 0 <= a, b < 2^30, exactly, as <<hi, lo>>: hi * 2^30 + lo with
\* lo < 2^30 (the product itself may exceed what a machine word holds).
Product(a, b) ==
  LET B == 2^15
      p0 == (a % B) * (b % B)
      p1 == (a \div B) * (b % B) + (a % B) * (b \div B)
      p2 == (a \div B) * (b \div B)
      low == (p1 % B) * B + p0
  IN <<p2 + (p1 \div B) + (low \div 2^30), low % 2^30>>

\* The number of cells of rectangle q, exactly.
CellCount(q) == Product(Max(0, q[3] - q[1] + 1), Max(0, q[4] - q[2] + 1))

\* The low 32 bits of <<hi, lo>> read as an int.
Wrap32(p) ==
  IF (p[1] % 4) >= 2 THEN ((p[1] % 4) - 4) * 2^30 + p[2] ELSE (p[1] % 4) * 2^30 + p[2]

\* int a * int b.  A product outside the range of int is undefined: it is any
\* int, of which the model takes the wrapped product, the values around the
\* test of line 194 and the ends of the range.
Times(a, b) ==
  IF Product(Abs(a), Abs(b))[1] < 2
  THEN {(IF (a < 0) = (b < 0) THEN 1 ELSE -1) * Wrap32(Product(Abs(a), Abs(b)))}
  ELSE {IF (a < 0) = (b < 0) \/ Wrap32(Product(Abs(a), Abs(b))) = INT_MIN
        THEN Wrap32(Product(Abs(a), Abs(b)))
        ELSE -Wrap32(Product(Abs(a), Abs(b))),
        INT_MIN, 0, 1, 2, INT_MAX}

\* A public call with target tgt has just called update(root, ...) or
\* query(root, ...) on the whole range.
Entered(op, tgt) ==
  [op |-> op, tgt |-> tgt, rect |-> <<0, 0, MAXR_REF, MAXC_REF>>, site |-> "enter",
   passed |-> 0, cells |-> <<0, 0>>]

\* The targets tried: the cells at these lines, the square of four cells at
\* the origin and the whole range (a call visits about as many nodes as the
\* longer side of its target is long, unless the target is the whole range).
RefRows == {0, 1, MAXR_REF}
RefCols == {0, 1, MAXC_REF}
RefRects ==
  {q \in RefRows \X RefCols \X RefRows \X RefCols :
     /\ q[1] <= q[3] /\ q[2] <= q[4]
     /\ q[3] - q[1] = q[4] - q[2]
     /\ q[3] - q[1] \in {0, 1, MAXR_REF}}

\* The call passes area a for a rectangle of c cells at site s.
Pass(s, a, c) ==
  /\ walk' = [walk EXCEPT !.site = s, !.passed = a, !.cells = c]
  /\ UNCHANGED <<policy, init, tree, grid, touched, last, ret, freed, ops, kos>>

\* Line 208, in the first update of a tree: the node is absent and is created
\* with join_region(init, (r2 - r1 + 1)*(c2 - r1 + 1)).
WalkCreate ==
  /\ walk.op = "update" /\ walk.site = "enter"
  /\ \E a \in Times(walk.rect[3] - walk.rect[1] + 1, walk.rect[4] - walk.rect[1] + 1) :
       Pass("created", a, CellCount(walk.rect))

\* Lines 192-193: the node is pending (made so by line 215, or found so by a
\* query below the root) and join_value_with_delta gets rlen*clen.
WalkResolve ==
  /\ \/ walk.op = "update" /\ walk.site = "created"
        /\ ~Disjoint(walk, walk.rect[1], walk.rect[2], walk.rect[3], walk.rect[4])
        /\ Contained(walk, walk.rect[1], walk.rect[2], walk.rect[3], walk.rect[4])
     \/ walk.op = "query" /\ walk.site = "enter"
        /\ walk.rect # <<0, 0, MAXR_REF, MAXC_REF>>
        /\ ~Disjoint(walk, walk.rect[1], walk.rect[2], walk.rect[3], walk.rect[4])
  /\ \E a \in Times(walk.rect[3] - walk.rect[1] + 1, walk.rect[4] - walk.rect[2] + 1) :
       Pass("resolved", a, CellCount(walk.rect))

\* Lines 194-200: if rlen*clen > 1, child i is handed rlen_i*clen_i, which
\* join_region gets if the child is absent.
WalkPush ==
  /\ walk.site = "resolved" /\ walk.passed > 1
  /\ \E i \in 1..4 :
       \E a \in LET q == Quadrants(walk.rect[1], walk.rect[2], walk.rect[3], walk.rect[4])[i]
                IN Times(q[3] - q[1] + 1, q[4] - q[2] + 1) :
         Pass("pushed", a,
              CellCount(Quadrants(walk.rect[1], walk.rect[2], walk.rect[3], walk.rect[4])[i]))

\* Lines 236-238: query meets an absent node and join_region gets the area of
\* the overlap with the target.
WalkOverlap ==
  /\ walk.op = "query" /\ walk.site = "enter"
  /\ ~Disjoint(walk, walk.rect[1], walk.rect[2], walk.rect[3], walk.rect[4])
  /\ \E a \in Times(Min(walk.rect[3], walk.tgt[3]) - Max(walk.rect[1], walk.tgt[1]) + 1,
                    Min(walk.rect[4], walk.tgt[4]) - Max(walk.rect[2], walk.tgt[2]) + 1) :
       Pass("overlap", a,
            CellCount(<<Max(walk.rect[1], walk.tgt[1]), Max(walk.rect[2], walk.tgt[2]),
                        Min(walk.rect[3], walk.tgt[3]), Min(walk.rect[4], walk.tgt[4])>>))

\* Lines 219-223 and 250-253: the rectangle is neither disjoint from the
\* target nor contained in it, and the call recurses into quadrant i.
WalkInto ==
  /\ \/ walk.op = "update" /\ walk.site = "created"
     \/ walk.op = "query" /\ walk.site \in {"enter", "resolved", "pushed"}
  /\ ~Disjoint(walk, walk.rect[1], walk.rect[2], walk.rect[3], walk.rect[4])
  /\ ~Contained(walk, walk.rect[1], walk.rect[2], walk.rect[3], walk.rect[4])
  /\ \E i \in 1..4 :
       /\ walk' = [walk EXCEPT !.rect = Quadrants(walk.rect[1], walk.rect[2],
                                                  walk.rect[3], walk.rect[4])[i],
                               !.site = "enter"]
       /\ UNCHANGED <<policy, init, tree, grid, touched, last, ret, freed, ops, kos>>

NextWalk == WalkCreate \/ WalkResolve \/ WalkPush \/ WalkOverlap \/ WalkInto

InitWalk ==
  /\ policy = "assign"
  /\ init = 0
  /\ tree = NewTree(FALSE, 0)
  /\ grid = [x \in Cells |-> 0]
  /\ touched = {}
  /\ last = "new"
  /\ ret = 0
  /\ freed = <<>>
  /\ ops = 0
  /\ kos = Globals(0, <<>>)
  /\ walk \in {Entered(op, tgt) : op \in {"update", "query"}, tgt \in RefRects}

\* One public call on the range of the source.
SpecWalk == InitWalk /\ [][NextWalk]_vars

\* The SCC program before main runs, on any input within the bounds.
InitSCC ==
  /\ policy = "assign"
  /\ init = 0
  /\ tree = NewTree(FALSE, 0)
  /\ grid = [x \in Cells |-> 0]
  /\ touched = {}
  /\ last = "new"
  /\ ret = 0
  /\ freed = <<>>
  /\ ops = 0
  /\ \E n \in 0..MAXN, k \in 0..MaxEdges : \E es \in EdgeLists(n, k) : kos = Globals(n, es)
  /\ walk = Entered("update", <<0, 0, 0, 0>>)

\* The SCC program on every input within the bounds.
SpecSCC == InitSCC /\ [][NextSCC]_vars

----------------------------------------------------------------------------
(* The state machine *)

InitWith(lims, caps) ==
  /\ policy \in Policies
  /\ init \in Inits
  /\ tree \in {NewTree(lim, c) : lim \in lims, c \in caps}
  /\ grid = [x \in Cells |-> init]
  /\ touched = {}
  /\ last = "new"
  /\ ret = 0
  /\ freed = <<>>
  /\ ops = 0
  /\ kos = Globals(0, <<>>)
  /\ walk = Entered("update", <<0, 0, 0, 0>>)

\* Memory never runs out.
Init == InitWith({FALSE}, {0})

\* The allocator fails once the heap holds cap nodes.
InitOOM == InitWith({TRUE}, 0..MaxCap)

Alive == last # "destroyed" /\ ops < MaxOps

DoUpdate(r1, c1, r2, c2, d) ==
  /\ tree' = PublicUpdate(tree, r1, c1, r2, c2, d)
  /\ grid' = IF tree'.thrown THEN grid ELSE GridAfter(grid, r1, c1, r2, c2, d)
  /\ touched' = IF tree'.thrown THEN touched ELSE touched \cup CellsOf(r1, c1, r2, c2)
  /\ last' = "update"
  /\ ops' = ops + 1
  /\ UNCHANGED <<policy, init, ret, freed, kos, walk>>

DoQuery(r1, c1, r2, c2) ==
  /\ tree' = PublicQuery(tree, r1, c1, r2, c2)
  /\ ret' = IF tree'.thrown THEN ret ELSE Returned(tree', r1, c1, r2, c2)
  /\ last' = "query"
  /\ ops' = ops + 1
  /\ UNCHANGED <<policy, init, grid, touched, freed, kos, walk>>

\* update(r1, c1, r2, c2, d)
Update == \E q \in Rects, d \in Deltas : Alive /\ DoUpdate(q[1], q[2], q[3], q[4], d)

\* update(r, c, d)
UpdatePoint == \E x \in Cells, d \in Deltas : Alive /\ DoUpdate(x[1], x[2], x[1], x[2], d)

\* query(r1, c1, r2, c2)
Query == \E q \in Rects : Alive /\ DoQuery(q[1], q[2], q[3], q[4])

\* return query(r, c, r, c);
DoAt(r, c) == DoQuery(r, c, r, c)

\* at(r, c)
At == \E x \in Cells : Alive /\ DoAt(x[1], x[2])

\* ~quadtree()
Destroy ==
  /\ last # "destroyed"
  /\ freed' = clean_up(tree.heap, tree.root, MaxDepth + 1)
  /\ last' = "destroyed"
  /\ UNCHANGED <<policy, init, tree, grid, touched, ret, ops, kos, walk>>

Next == Update \/ UpdatePoint \/ Query \/ At \/ Destroy

Spec == Init /\ [][Next]_vars

SpecOOM == InitOOM /\ [][Next]_vars

\* Coordinates a caller can pass: the range and one step outside it.
WideRows == -1..(MAXR + 1)
WideCols == -1..(MAXC + 1)

\* The malformed rectangles: r1 > r2, c1 > c2, or a coordinate out of range.
Malformed == (WideRows \X WideCols \X WideRows \X WideCols) \ Rects

\* update(r1, c1, r2, c2, d) with a malformed rectangle: lines 277-284 check
\* nothing.  The reference grid has no meaning for such a call and is kept.
UpdateMalformed ==
  \E q \in Malformed, d \in Deltas :
    /\ Alive
    /\ tree' = PublicUpdate(tree, q[1], q[2], q[3], q[4], d)
    /\ last' = "update"
    /\ ops' = ops + 1
    /\ UNCHANGED <<policy, init, grid, touched, ret, freed, kos, walk>>

\* query(r1, c1, r2, c2) with a malformed rectangle: lines 290-298 check nothing.
QueryMalformed == \E q \in Malformed : Alive /\ DoQuery(q[1], q[2], q[3], q[4])

NextAny == Next \/ UpdateMalformed \/ QueryMalformed

\* Callers that also pass malformed rectangles.
SpecAny == Init /\ [][NextAny]_vars

----------------------------------------------------------------------------
(* Helpers of the properties *)

\* Number of cells of a rectangle (0 when r1 > r2 or c1 > c2).
Area(q) == Max(0, q[3] - q[1] + 1) * Max(0, q[4] - q[2] + 1)

Q(m, q) == QueryResult(m, q[1], q[2], q[3], q[4])

U(m, q, d) == PublicUpdate(m, q[1], q[2], q[3], q[4], d)

SubRects(q) == {s \in Rects : q[1] <= s[1] /\ s[3] <= q[3] /\ q[2] <= s[2] /\ s[4] <= q[4]}

NoCommonCell(q, s) == CellsOf(q[1], q[2], q[3], q[4]) \cap CellsOf(s[1], s[2], s[3], s[4]) = {}

Pending(m) == {n \in 1..Len(m.heap) : m.heap[n].pending}

\* The object with memory to spare again.
Roomy(m) == [m EXCEPT !.limited = FALSE]

\* The value of every cell as at() reads it now.
Reads(m) == [x \in Cells |-> AtResult(m, x[1], x[2])]

RECURSIVE Placed(_, _, _, _)
\* The materialised nodes below n with the rectangle each one stands for.
Placed(heap, n, q, fuel) ==
  IF n = NULL \/ fuel = 0 THEN {}
  ELSE {<<n, q>>} \cup
       UNION {Placed(heap, heap[n].child[i], Quadrants(q[1], q[2], q[3], q[4])[i], fuel - 1) : i \in 1..4}

----------------------------------------------------------------------------
(* C1 *)

\* C1: after any sequence of valid updates, query over every valid rectangle
\* returns the join_values aggregate of the conceptual cell values, i.e. what
\* the reference grid gives; stated for the policy the source compiles in
\* (assign/min), where it is the minimum of the last-assigned-or-init values.
C1_QueryMatchesGrid ==
  policy = "assign" =>
    \A q \in Rects : Q(tree, q) = FoldCells(grid, CellsOf(q[1], q[2], q[3], q[4]))

----------------------------------------------------------------------------
(* C2 *)

\* C2: right after update(r1,c1,r2,c2,d) returns, at(r,c) of every cell of the
\* rectangle is join_value_with_delta(v, d, 1), v being what at(r,c) returned
\* before the update.
C2_UpdateAppliesDelta ==
  [][(last' = "update" /\ ops' = ops + 1)
       => \A x \in CellsOf(tree'.tgt[1], tree'.tgt[2], tree'.tgt[3], tree'.tgt[4]) :
            AtResult(tree', x[1], x[2])
              = join_value_with_delta(AtResult(tree, x[1], x[2]), tree'.delta, 1)]_vars

----------------------------------------------------------------------------
(* C3 *)

\* C3: update(R, d) does not change query(R') for any valid R' sharing no cell
\* with R; stated for the policy the source compiles in (assign/min).
C3_Locality ==
  [][(policy = "assign" /\ last' = "update" /\ ops' = ops + 1)
       => \A s \in Rects : NoCommonCell(tree'.tgt, s) => Q(tree', s) = Q(tree, s)]_vars

----------------------------------------------------------------------------
(* C4 *)

\* C4: under the accumulate policy, from the same tree state update(R, d1)
\* followed by update(R, d2) gives every sub-rectangle S of R the same
\* query(S) as the single update(R, d1 + d2).
C4_Composition ==
  (policy = "accumulate" /\ ops < MaxOps) =>
    \A q \in Rects, d1 \in Deltas, d2 \in Deltas : \A s \in SubRects(q) :
      Q(U(U(tree, q, d1), q, d2), s) = Q(U(tree, q, join_deltas(d1, d2)), s)

----------------------------------------------------------------------------
(* C5 *)

\* C5: query over a valid rectangle none of whose cells any update covered
\* returns join_region(init, A), A the number of its cells.
C5_UntouchedDefault ==
  \A q \in Rects :
    CellsOf(q[1], q[2], q[3], q[4]) \cap touched = {} => Q(tree, q) = join_region(init, Area(q))

----------------------------------------------------------------------------
(* C6 *)

\* C6: under the assign policy, applying the update that was just applied a
\* second time leaves every query over every valid rectangle with the result
\* it has after the first application.  (A tree left unchanged answers every
\* query alike, so the first disjunct only spares the evaluation.)
C6_AssignIdempotent ==
  (policy = "assign" /\ last = "update") =>
    LET twice == U(tree, tree.tgt, tree.delta)
    IN \/ (twice.heap = tree.heap /\ twice.root = tree.root /\ twice.delta = tree.delta)
       \/ \A q \in Rects : Q(twice, q) = Q(tree, q)

\* The second application meets deferred deltas left by an earlier update.
C6_Witness ==
  /\ policy = "assign" /\ last = "update" /\ ops = 2
  /\ Pending(tree) # {}

----------------------------------------------------------------------------
(* C7 *)

\* C7: every update, query and at with a valid rectangle terminates: each
\* recursive call is on a rectangle of fewer cells than its caller's, no call
\* recurses from a rectangle of a single cell or less, and the recursion never
\* reaches the depth cap.
C7_Terminates ==
  /\ ~tree.overrun
  /\ \A e \in tree.calls : Area(e[2]) < Area(e[1]) /\ Area(e[1]) > 1

\* A query that had to split the root rectangle.
C7_Witness == last = "query" /\ tree.calls # {} /\ Len(tree.heap) > 1

----------------------------------------------------------------------------
(* C8 *)

\* The pointers of the object: the member root and every child slot.
Slots(m) == {<<0, 1>>} \cup ((1..Len(m.heap)) \X (1..4))

\* C8: every node ever allocated is held by exactly one pointer (as many
\* non-null pointers as nodes, and every node held by one), clean_up(root)
\* deletes every allocated node exactly once, and so did the destructor if
\* it ran.
C8_NoLeak ==
  LET N == Len(tree.heap)
      held == {s \in Slots(tree) : Deref(tree, s) # NULL}
      f == clean_up(tree.heap, tree.root, MaxDepth + 1)
  IN /\ Cardinality(held) = N
     /\ {Deref(tree, s) : s \in held} = 1..N
     /\ Len(f) = N
     /\ {f[i] : i \in 1..Len(f)} = 1..N
     /\ last = "destroyed" => freed = f

\* The destructor ran on a tree with lazily created children.
C8_Witness == last = "destroyed" /\ Len(freed) >= 5

----------------------------------------------------------------------------
(* C9 *)

\* C9: after an allocation failure aborted a call, a node is pending only if
\* its delta has not been applied to its own value, every non-pending node's
\* value is the aggregate of the values at() reads in its rectangle, and
\* queries agree with the cell-wise reads.
C9_ConsistentAfterFailure ==
  tree.thrown =>
    LET m == Roomy(tree)
        cur == Reads(m)
    IN /\ \A n \in 1..Len(tree.heap) : tree.heap[n].pending => ~tree.heap[n].applied
       /\ \A p \in Placed(tree.heap, tree.root, <<0, 0, MAXR, MAXC>>, MaxDepth + 1) :
            (~tree.heap[p[1]].pending /\ Area(p[2]) > 0)
              => tree.heap[p[1]].value = FoldCells(cur, CellsOf(p[2][1], p[2][2], p[2][3], p[2][4]))
       /\ \A q \in Rects : Q(m, q) = FoldCells(cur, CellsOf(q[1], q[2], q[3], q[4]))

----------------------------------------------------------------------------
(* C10 *)

\* C10: at(r,c) and query(r,c,r,c) return the same value whichever is called
\* first: once either has returned ret for a cell (both are the same call on
\* the tree), the other, called on the tree the first one left, returns ret.
C10_PointEqualsRect ==
  (last = "query" /\ Area(tree.tgt) = 1) =>
    /\ AtResult(tree, tree.tgt[1], tree.tgt[2]) = ret
    /\ QueryResult(tree, tree.tgt[1], tree.tgt[2], tree.tgt[1], tree.tgt[2]) = ret

\* The first read had deferred deltas to resolve on its way to the cell (it
\* created the children of the node it pushed down from).
C10_Witness ==
  /\ last = "query" /\ Area(tree.tgt) = 1 /\ ops = 2
  /\ tree.calls # {}
  /\ \E n \in 1..Len(tree.heap) : ~tree.heap[n].pending /\ tree.heap[n].delta # 0
  /\ ret # init

----------------------------------------------------------------------------
(* C11 *)

\* C11: an update or query called with a malformed rectangle ends in an error
\* (the call is left by an exception) before any node is visited, created or
\* modified: the heap and root are as before and no recursion was made.
C11_InvalidRangeFailsFast ==
  [][(tree'.tgt \in Malformed /\ ops' = ops + 1)
       => /\ tree'.thrown
          /\ tree'.heap = tree.heap /\ tree'.root = tree.root
          /\ tree'.calls = {}]_vars

----------------------------------------------------------------------------
(* C12 *)

RECURSIVE Closure(_, _)
\* The pairs <<u, v>> joined by a chain of at most 2^k pairs of R.
Closure(R, k) ==
  IF k = 0 THEN R
  ELSE Closure(R \cup {<<p[1][1], p[2][2]>> : p \in {x \in R \X R : x[1][2] = x[2][1]}}, k - 1)

\* v is reachable from u in the input graph (by a path of any length, 0 too).
Reachable(k) ==
  Closure({<<v, v>> : v \in 0..(k.nodes - 1)} \cup {k.input[i] : i \in 1..Len(k.input)}, MAXN)

\* The places of vertex v in SCC.
Places(k, v) ==
  {p \in (1..Len(k.SCC)) \X (1..MAXN) : p[2] <= Len(k.SCC[p[1]]) /\ k.SCC[p[1]][p[2]] = v}

\* C12: when the two passes are done, every vertex 0..nodes-1 appears in
\* exactly one component of SCC (once), nothing else appears, and two vertices
\* are in the same component iff each is reachable from the other in the input
\* graph.
C12_SCCPartition ==
  kos.pc = "done" =>
    /\ \A v \in 0..(kos.nodes - 1) : Cardinality(Places(kos, v)) = 1
    /\ \A i \in 1..Len(kos.SCC) :
         Len(kos.SCC[i]) \in 1..MAXN /\ \A j \in 1..Len(kos.SCC[i]) : kos.SCC[i][j] \in 0..(kos.nodes - 1)
    /\ \A u, v \in 0..(kos.nodes - 1) :
         (\E p \in Places(kos, u), q \in Places(kos, v) : p[1] = q[1])
           <=> (<<u, v>> \in Reachable(kos) /\ <<v, u>> \in Reachable(kos))

\* A graph of MAXN vertices with a component of several vertices and an edge
\* that leaves it.
C12_Witness ==
  /\ kos.pc = "done" /\ kos.nodes = MAXN
  /\ \E i \in 1..Len(kos.SCC) : Len(kos.SCC[i]) >= 2
  /\ \E e \in 1..Len(kos.input) :
       \A p \in Places(kos, kos.input[e][1]), q \in Places(kos, kos.input[e][2]) : p[1] # q[1]

----------------------------------------------------------------------------
(* C13 *)

\* The delta child i of n holds once d has been pushed down from n.
Pushed(m, n, i, d) ==
  IF m.heap[n].child[i] # NULL /\ m.heap[m.heap[n].child[i]].pending
  THEN join_deltas(m.heap[m.heap[n].child[i]].delta, d)
  ELSE d

\* C13: a node that is pending before a public call and resolved by it (by a
\* query, or by an update whose rectangle is disjoint from the node's, so
\* that the call does nothing else to the node) has had the delta stored on
\* it applied to its value, and that delta pushed to its four children if it
\* covers more than one cell, whatever delta the latest update was given.
C13_ResolveUsesNodeDelta ==
  [][ops' = ops + 1 =>
       \A p \in Placed(tree.heap, tree.root, <<0, 0, MAXR, MAXC>>, MaxDepth + 1) :
         ( /\ tree.heap[p[1]].pending
           /\ ~tree'.heap[p[1]].pending
           /\ (last' = "query" \/ Disjoint(tree', p[2][1], p[2][2], p[2][3], p[2][4])) )
         => /\ tree'.heap[p[1]].value
                 = join_value_with_delta(tree.heap[p[1]].value, tree.heap[p[1]].delta,
                                         (p[2][3] - p[2][1] + 1) * (p[2][4] - p[2][2] + 1))
            /\ (p[2][3] - p[2][1] + 1) * (p[2][4] - p[2][2] + 1) > 1
                 => \A i \in 1..4 :
                      /\ tree'.heap[p[1]].child[i] # NULL
                      /\ tree'.heap[tree'.heap[p[1]].child[i]].delta
                           = Pushed(tree, p[1], i, tree.heap[p[1]].delta)]_vars

----------------------------------------------------------------------------
(* C14 *)

RECURSIVE Settled(_, _, _, _)
\* The materialised nodes that are not pending and lie below no pending
\* node, with the rectangle each one stands for.
Settled(heap, n, q, fuel) ==
  IF n = NULL \/ fuel = 0 THEN {}
  ELSE IF heap[n].pending THEN {}
  ELSE {<<n, q>>} \cup
       UNION {Settled(heap, heap[n].child[i], Quadrants(q[1], q[2], q[3], q[4])[i], fuel - 1) : i \in 1..4}

\* The values of the children of n whose quadrant of q covers at least one cell.
LiveChildValues(m, n, q) ==
  {m.heap[m.heap[n].child[i]].value :
     i \in {j \in 1..4 : Area(Quadrants(q[1], q[2], q[3], q[4])[j]) > 0}}

\* C14: after a completed update, the value of every materialised node that
\* is not pending (and not below a pending node, whose children may be stale)
\* is the join_values aggregate of the conceptual values of the cells of its
\* rectangle; in particular the value of a node the update recursed through
\* is the aggregate (here the minimum) of the children that cover at least
\* one cell.  Stated for the policy the source compiles in (assign/min).
C14_NodeValueIsAggregate ==
  (policy = "assign" /\ last = "update") =>
    \A p \in Settled(tree.heap, tree.root, <<0, 0, MAXR, MAXC>>, MaxDepth + 1) :
      Area(p[2]) > 0 =>
        /\ tree.heap[p[1]].value = FoldCells(grid, CellsOf(p[2][1], p[2][2], p[2][3], p[2][4]))
        /\ (~Disjoint(tree, p[2][1], p[2][2], p[2][3], p[2][4])
            /\ ~Contained(tree, p[2][1], p[2][2], p[2][3], p[2][4]))
             => /\ tree.heap[p[1]].value \in LiveChildValues(tree, p[1], p[2])
                /\ \A v \in LiveChildValues(tree, p[1], p[2]) : tree.heap[p[1]].value <= v

----------------------------------------------------------------------------
(* C15 *)

\* C15: a node the call created for rectangle R and did nothing else to (one
\* that update created for a rectangle disjoint from its target, line 208, or
\* one that a push-down created and left pending, line 183) has the value
\* join_region(init, (r2-r1+1)*(c2-c1+1)) and four absent children.  (A node
\* is pending after the call only if a push-down deferred a delta to it.)
C15_CreatedNodeInit ==
  [][ops' = ops + 1 =>
       \A p \in Placed(tree'.heap, tree'.root, <<0, 0, MAXR, MAXC>>, MaxDepth + 1) :
         ( /\ p[1] > Len(tree.heap)
           /\ \/ tree'.heap[p[1]].pending
              \/ (last' = "update" /\ Disjoint(tree', p[2][1], p[2][2], p[2][3], p[2][4])) )
         => /\ tree'.heap[p[1]].value
                 = join_region(init, (p[2][3] - p[2][1] + 1) * (p[2][4] - p[2][2] + 1))
            /\ tree'.heap[p[1]].child = <<NULL, NULL, NULL, NULL>>]_vars

----------------------------------------------------------------------------
(* C16 *)

\* The cells of rectangle q.
CellsIn(q) == CellsOf(q[1], q[2], q[3], q[4])

\* C16: the four quadrants of every rectangle of more than one cell that the
\* last call split are pairwise disjoint, their union is the rectangle, and
\* each covers at least one cell; no recursion entered a rectangle of zero
\* cells and no materialised node stands for one.
C16_QuadrantsNonEmpty ==
  /\ \A e \in tree.calls :
       Area(e[1]) > 1 =>
         LET quads == Quadrants(e[1][1], e[1][2], e[1][3], e[1][4])
         IN /\ \A i, j \in 1..4 : i # j => CellsIn(quads[i]) \cap CellsIn(quads[j]) = {}
            /\ UNION {CellsIn(quads[i]) : i \in 1..4} = CellsIn(e[1])
            /\ \A i \in 1..4 : quads[i][1] <= quads[i][3] /\ quads[i][2] <= quads[i][4]
  /\ \A e \in tree.calls : Area(e[2]) >= 1
  /\ \A p \in Placed(tree.heap, tree.root, <<0, 0, MAXR, MAXC>>, MaxDepth + 1) : Area(p[2]) >= 1

----------------------------------------------------------------------------
(* C17 *)

\* C17: a query is observationally read-only: from every reachable state and
\* for every extra query x, a following query q, alone or after an update
\* u with delta d, returns the same value whether or not x was executed
\* first.
C17_QueryReadOnly ==
  \A x \in Rects, q \in Rects :
    /\ Q(PublicQuery(tree, x[1], x[2], x[3], x[4]), q) = Q(tree, q)
    /\ \A u \in Rects, d \in Deltas :
         Q(U(PublicQuery(tree, x[1], x[2], x[3], x[4]), u, d), q) = Q(U(tree, u, d), q)

----------------------------------------------------------------------------
(* C18 *)

\* C18: on the range of the source (MAXR = MAXC = 10^9) every area passed to
\* join_region or join_value_with_delta is the number of cells of the
\* rectangle it is passed for, and that number is within the range of int.
C18_AreasFitInt ==
  walk.site \in {"created", "resolved", "pushed", "overlap"} =>
    /\ walk.cells[1] < 2
    /\ walk.passed = walk.cells[1] * 2^30 + walk.cells[2]

====
